---- MODULE Spec2Model ----
(***************************************************************************)
(* State-machine model of the notification server (src/app.js,             *)
(* src/config.js): the HTTP per-origin rate limiter, the Socket.IO         *)
(* authentication and rate-limiting middlewares, the connection handler    *)
(* with its replay of undelivered notifications, the send_notification and *)
(* disconnect handlers, the webhook endpoint, the MySQL tables they use    *)
(* and the Redis adapter that joins two server instances.                  *)
(***************************************************************************)
EXTENDS Integers, Sequences, FiniteSets, TLC

VARIABLES
    now,               \* Date.now(), in milliseconds
    httpLimits,        \* app.js:30   Map ip -> {count, resetTime}; count 0 = no entry
    httpSeen,          \* history: per ip, the window a fixed-window counter would be in
    httpLast,          \* history: per ip, the answer to its latest request
    adapterOn,         \* app.js:96-109  per instance: the Redis adapter is attached
    socketRateLimits,  \* app.js:126  per instance, Map key -> {timestamp, count}; count 0 = no entry
    admitSeen,         \* history: per instance and key, the window a fixed-window counter would be in
    nsock,             \* number of connection attempts made so far
    conn,              \* per connection attempt: the socket and where its handlers stand
    received,          \* per connection: the new_notification events the client was sent
    ledger,            \* the notifications table, in insertion (id) order
    updates,           \* the UPDATE ... SET delivered_at queries issued and not yet executed
    connection_logs,   \* the connection_logs table: rows {socket_id, disconnected_at}
    sends,             \* the send_notification requests and webhook calls handled so far
    bus,               \* per instance: adapter messages published to it and not yet delivered
    unhandled          \* the handlers whose promise was rejected with nothing to catch it

httpVars == <<httpLimits, httpSeen, httpLast>>
limitVars == <<socketRateLimits, admitSeen>>
sockVars == <<nsock, conn, received>>
dbVars == <<ledger, updates, connection_logs>>
vars == <<now, httpVars, adapterOn, limitVars, sockVars, dbVars, sends, bus, unhandled>>

(***************************************************************************)
(* Bounds of the model.                                                    *)
(***************************************************************************)
\* config.rateLimiting.http.max as configured (HTTP_RATE_LIMIT_MAX; default 100)
HttpMax == 2
\* config.rateLimiting.socket.points as configured (SOCKET_RATE_LIMIT_POINTS; default 10)
SocketPoints == 2
\* number of HTTP requests one origin sends within one window
MaxHttpReqs == 4
\* the clock runs over this many whole windows after time 0
MaxWindows == 1
\* number of connection attempts
MaxSockets == 3
\* number of connection attempts where the ledger and the sends are in play
MaxSessions == 2
\* number of send_notification requests and webhook calls
MaxSends == 2

(***************************************************************************)
(* Configuration (src/config.js).                                          *)
(***************************************************************************)
\* config.rateLimiting.http.window, minutes
HttpWindow == 15
\* config.rateLimiting.socket.duration, seconds
SocketDuration == 60

(***************************************************************************)
(* The clock.  Date.now() is read at the instants below: the start, the    *)
(* middle and (for every window length in use) the end of each window.     *)
(***************************************************************************)
windowMs == HttpWindow * 60 * 1000          \* app.js:34
timeWindow == SocketDuration * 1000         \* app.js:142

TimePoints ==
    { k * w + o : k \in 0..MaxWindows, w \in {windowMs, timeWindow}, o \in {0, 500} }

Tick ==
    /\ \E t \in TimePoints : t > now /\ now' = t
    /\ UNCHANGED <<httpVars, adapterOn, limitVars, sockVars, dbVars, sends, bus, unhandled>>

\* Math.ceil(ms / 1000) for ms >= 0 (app.js:59)
CeilSeconds(ms) == (ms + 999) \div 1000

(***************************************************************************)
(* HTTP per-origin rate limiter (app.js:29-66).                            *)
(***************************************************************************)
Ips == {"ip1", "ip2"}

NoLimit == [count |-> 0, resetTime |-> 0]
NoSeen == [start |-> 0, n |-> 0, era |-> 0]
NoAnswer == [status |-> "none", retryAfter |-> 0]

\* What a fixed-window counter of length w, started by the first request of a
\* window, has seen once a request arrives at time t: the start of the
\* window, the number n of requests in it, and how many windows there were.
SeenAfter(seen, t, w) ==
    IF seen.n = 0 \/ t > seen.start + w
    THEN [start |-> t, n |-> 1, era |-> seen.era + 1]
    ELSE [start |-> seen.start, n |-> seen.n + 1, era |-> seen.era]

\* Faulty variant, to show the property is sensitive: the ceiling is compared with > instead of >=.
HttpLimiterStepOffByOne(userLimit, t) ==
    IF userLimit.count = 0
    THEN [entry |-> [count |-> 1, resetTime |-> t + windowMs],
          answer |-> [status |-> "next", retryAfter |-> 0]]
    ELSE IF t > userLimit.resetTime
    THEN [entry |-> [count |-> 1, resetTime |-> t + windowMs],
          answer |-> [status |-> "next", retryAfter |-> 0]]
    ELSE IF userLimit.count > HttpMax
    THEN [entry |-> userLimit,
          answer |-> [status |-> "429",
                      retryAfter |-> CeilSeconds(userLimit.resetTime - t)]]
    ELSE [entry |-> [userLimit EXCEPT !.count = @ + 1],
          answer |-> [status |-> "next", retryAfter |-> 0]]

\* The limiter's answer and the entry it leaves for ip.
HttpLimiterStep(userLimit, t) ==
    IF userLimit.count = 0                                   \* !httpLimits.has(ip)
    THEN [entry |-> [count |-> 1, resetTime |-> t + windowMs],
          answer |-> [status |-> "next", retryAfter |-> 0]]
    ELSE IF t > userLimit.resetTime                          \* window has passed
    THEN [entry |-> [count |-> 1, resetTime |-> t + windowMs],
          answer |-> [status |-> "next", retryAfter |-> 0]]
    ELSE IF userLimit.count >= HttpMax                       \* over limit
    THEN [entry |-> userLimit,
          answer |-> [status |-> "429",
                      retryAfter |-> CeilSeconds(userLimit.resetTime - t)]]
    ELSE [entry |-> [userLimit EXCEPT !.count = @ + 1],
          answer |-> [status |-> "next", retryAfter |-> 0]]

httpRateLimiter(ip) ==
    LET r == HttpLimiterStep(httpLimits[ip], now) IN
    /\ SeenAfter(httpSeen[ip], now, windowMs).n <= MaxHttpReqs
    /\ httpLimits' = [httpLimits EXCEPT ![ip] = r.entry]
    /\ httpLast' = [httpLast EXCEPT ![ip] = r.answer]
    /\ httpSeen' = [httpSeen EXCEPT ![ip] = SeenAfter(@, now, windowMs)]
    /\ UNCHANGED <<now, adapterOn, limitVars, sockVars, dbVars, sends, bus, unhandled>>

(***************************************************************************)
(* Identities, credentials and sockets.                                    *)
(***************************************************************************)
Instances == {"A", "B"}

\* Identities a token can carry in its id field; also what a client may put in
\* handshake.auth.userId.  "none" stands for an absent (or empty) value.
Users == {"alice001", "bob"}

\* handshake.auth.token: absent, or a JWT that is well signed and current,
\* badly signed, or expired.
Tokens ==
    {[kind |-> "missing", id |-> "none"]}
        \cup {[kind |-> k, id |-> u] : k \in {"valid", "badsig", "expired"}, u \in Users}

\* jwt.verify(token, secret, cb): err is set unless the token is well signed
\* and not expired (app.js:118)
\* Faulty variant, to show the property is sensitive: expiry is not checked.
jwtVerifyIgnoreExpiration(token) == token.kind \in {"valid", "expired"}
jwtVerify(token) == token.kind = "valid"

Sockets == 1..MaxSockets
\* socket.id, unique to the connection
SocketId(s) == "sock" \o ToString(s)
\* `user_${id}` (app.js:167, 200, 257)
Room(id) == "user_" \o id

Keys == Users \cup {SocketId(s) : s \in Sockets}

NoConn ==
    [pc |-> "new", open |-> FALSE, closing |-> "no", inst |-> "A", cred |-> "none",
     user |-> "none", key |-> "none", nth |-> 0, err |-> "none", retryAfter |-> -1,
     already |-> {}]

(***************************************************************************)
(* Socket.IO rate limiting middleware (app.js:125-162).                    *)
(***************************************************************************)
NoEntry == [timestamp |-> 0, count |-> 0]

\* The key the limiter counts under (app.js:130)
LimiterKey(uid, s) == IF uid # "none" THEN uid ELSE SocketId(s)

\* Faulty variant, to show the property is sensitive: the ceiling is checked before the window.
SocketLimiterStepCeilingFirst(userLimit, currentTime) ==
    IF userLimit.count = 0
    THEN [entry |-> [timestamp |-> currentTime, count |-> 1], admitted |-> TRUE]
    ELSE IF userLimit.count >= SocketPoints
    THEN [entry |-> userLimit, admitted |-> FALSE]
    ELSE IF currentTime - userLimit.timestamp > timeWindow
    THEN [entry |-> [timestamp |-> currentTime, count |-> 1], admitted |-> TRUE]
    ELSE [entry |-> [userLimit EXCEPT !.count = @ + 1], admitted |-> TRUE]

\* The limiter's verdict and the entry it leaves under the key.
SocketLimiterStep(userLimit, currentTime) ==
    IF userLimit.count = 0                                   \* !socketRateLimits.has(userId)
    THEN [entry |-> [timestamp |-> currentTime, count |-> 1], admitted |-> TRUE]
    ELSE IF currentTime - userLimit.timestamp > timeWindow   \* outside time window
    THEN [entry |-> [timestamp |-> currentTime, count |-> 1], admitted |-> TRUE]
    ELSE IF userLimit.count >= SocketPoints                  \* over limit
    THEN [entry |-> userLimit, admitted |-> FALSE]
    ELSE [entry |-> [userLimit EXCEPT !.count = @ + 1], admitted |-> TRUE]

(***************************************************************************)
(* A connection attempt: the authentication middleware (app.js:111-123),   *)
(* the rate limiting middleware (app.js:128-162) and, once both called     *)
(* next(), the start of the connection handler (app.js:165-175): the       *)
(* socket joins its room and the SELECT of undelivered notifications is    *)
(* issued.                                                                 *)
(***************************************************************************)
\* History: the connections of identity u that are open.
OpenOf(u) == {s \in 1..nsock : conn[s].open /\ conn[s].user = u}

\* History: the rows a replay has put before a client of identity u.
Replayed(u) ==
    {e.n : e \in UNION {{received[s][i] : i \in 1..Len(received[s])} :
                            s \in {x \in 1..nsock : conn[x].user = u}}
                 \cap [kind : {"replay"}, n : 1..Len(ledger)]}

\* History: connection s is the first one admitted for identity u after the
\* rows that were recorded while u had no open connection.
NextIs(u, s) ==
    [i \in 1..Len(ledger) |->
        IF ledger[i].recipient = u /\ ledger[i].offline /\ ledger[i].next = 0
        THEN [ledger[i] EXCEPT !.next = s]
        ELSE ledger[i]]

Connect(inst, token, uid) ==
    LET s == nsock + 1
        key == LimiterKey(uid, s)
        r == SocketLimiterStep(socketRateLimits[inst][key], now)
        seen == SeenAfter(admitSeen[inst][key], now, timeWindow)
    IN
    /\ nsock < MaxSockets
    /\ nsock' = s
    /\ IF token.kind = "missing"
       THEN /\ conn' = [conn EXCEPT ![s] = [NoConn EXCEPT !.pc = "rejected",
                            !.inst = inst, !.cred = token.kind,
                            !.err = "Authentication error"]]
            /\ UNCHANGED limitVars
       ELSE IF ~jwtVerify(token)
       THEN /\ conn' = [conn EXCEPT ![s] = [NoConn EXCEPT !.pc = "rejected",
                            !.inst = inst, !.cred = token.kind,
                            !.err = "Authentication failed"]]
            /\ UNCHANGED limitVars
       ELSE /\ socketRateLimits' = [socketRateLimits EXCEPT ![inst][key] = r.entry]
            /\ admitSeen' = [admitSeen EXCEPT ![inst][key] = seen]
            /\ IF ~r.admitted
               THEN conn' = [conn EXCEPT ![s] = [NoConn EXCEPT !.pc = "denied",
                            !.inst = inst, !.cred = token.kind, !.user = token.id,
                            !.key = key, !.nth = seen.n,
                            !.err = "Too many requests, please try again later"]]
               ELSE conn' = [conn EXCEPT ![s] = [NoConn EXCEPT !.pc = "query",
                            !.open = TRUE, !.inst = inst, !.cred = token.kind,
                            !.user = token.id, !.key = key, !.nth = seen.n,
                            !.already = Replayed(token.id)]]
    /\ ledger' = IF jwtVerify(token) /\ r.admitted THEN NextIs(token.id, s) ELSE ledger
    /\ UNCHANGED <<now, httpVars, adapterOn, received, updates, connection_logs, sends, bus,
                   unhandled>>

(***************************************************************************)
(* Channel fan-out: io.to(room).emit(...) (app.js:200, 257) delivers to    *)
(* the sockets of this instance that are in the room and, through the      *)
(* Redis adapter (app.js:96-109), publishes to the other instances.        *)
(***************************************************************************)
\* The sockets of instance inst that are joined to room.  A socket is in its
\* room from socket.join (app.js:167) until its transport closes.
Members(inst, room) ==
    {s \in 1..nsock : conn[s].open /\ conn[s].inst = inst /\ Room(conn[s].user) = room}

DeliverLocal(rcv, inst, room, ev) ==
    [s \in Sockets |-> IF s \in Members(inst, room) THEN Append(rcv[s], ev) ELSE rcv[s]]

\* Faulty variant, to show the property is sensitive: nothing is published to the other instances.
PublishLocalOnly(b, inst, room, ev) == b
Publish(b, inst, room, ev) ==
    [j \in Instances |->
        IF j # inst /\ adapterOn[inst] /\ adapterOn[j]
        THEN Append(b[j], [room |-> room, ev |-> ev])
        ELSE b[j]]

\* An adapter message reaches instance j, which delivers it to its own members.
BusDeliver(j) ==
    /\ bus[j] # <<>>
    /\ received' = DeliverLocal(received, j, Head(bus[j]).room, Head(bus[j]).ev)
    /\ bus' = [bus EXCEPT ![j] = Tail(@)]
    /\ UNCHANGED <<now, httpVars, adapterOn, limitVars, nsock, conn, dbVars, sends, unhandled>>

(***************************************************************************)
(* Replay of undelivered notifications (app.js:169-187).                   *)
(***************************************************************************)
\* SELECT * FROM notifications WHERE recipient_id = ? AND delivered_at IS NULL
\* (app.js:171-175): the ids of the matching rows, in table order.
Undelivered(user) ==
    SelectSeq([i \in 1..Len(ledger) |-> i],
              LAMBDA i : ledger[i].recipient = user /\ ledger[i].delivered = 0)

ReplayEvents(ids) == [i \in 1..Len(ids) |-> [kind |-> "replay", n |-> ids[i]]]

SeqRange(q) == {q[i] : i \in 1..Len(q)}

\* The SELECT of connection s is answered and the handler resumes: for each
\* row it emits new_notification on the socket and issues the UPDATE without
\* awaiting it; a failed SELECT is caught and logged.  Either way the
\* send_notification and disconnect listeners are registered next
\* (app.js:190, 222).  An emit on a socket whose transport has closed reaches
\* no client.
ReplayReturn(s, ok) ==
    LET ids == Undelivered(conn[s].user) IN
    /\ s \in 1..nsock
    /\ conn[s].pc = "query"
    /\ IF ok
       THEN /\ received' = [received EXCEPT ![s] =
                              IF conn[s].open THEN @ \o ReplayEvents(ids) ELSE @]
            /\ updates' = updates \cup {<<id, s>> : id \in SeqRange(ids)}
            /\ conn' = [conn EXCEPT ![s].pc = "active"]
       ELSE /\ conn' = [conn EXCEPT ![s].pc = "active"]
            /\ UNCHANGED <<received, updates>>
    /\ UNCHANGED <<now, httpVars, adapterOn, limitVars, nsock, ledger, connection_logs, sends,
                   bus, unhandled>>

\* One of the un-awaited UPDATE notifications SET delivered_at = NOW() WHERE
\* id = ? queries (app.js:179-183) is executed; its promise has no handler, so
\* a failure is an unhandled rejection.  delivered counts the writes of
\* delivered_at (0 = NULL); writers is the history of whose UPDATE wrote it.
MarkDelivered(id, s, ok) ==
    /\ <<id, s>> \in updates
    /\ updates' = updates \ {<<id, s>>}
    /\ IF ok
       THEN /\ ledger' = [ledger EXCEPT ![id].delivered = @ + 1, ![id].writers = @ \cup {s}]
            /\ UNCHANGED unhandled
       ELSE /\ unhandled' = unhandled \cup {"markDelivered"}
            /\ UNCHANGED ledger
    /\ UNCHANGED <<now, httpVars, adapterOn, limitVars, sockVars, connection_logs, sends, bus>>

(***************************************************************************)
(* Disconnect (app.js:221-237).                                            *)
(***************************************************************************)
\* The transport of connection s closes: the socket leaves its room.  If the
\* disconnect listener is registered by now it runs and issues the UPDATE of
\* connection_logs; a socket still waiting for its SELECT has no listener yet.
Disconnect(s) ==
    /\ s \in 1..nsock
    /\ conn[s].open
    /\ conn' = [conn EXCEPT ![s].open = FALSE,
                            ![s].closing = IF conn[s].pc = "active" THEN "update" ELSE "no"]
    /\ UNCHANGED <<now, httpVars, adapterOn, limitVars, nsock, received, dbVars, sends, bus,
                   unhandled>>

\* UPDATE connection_logs SET disconnected_at = NOW() WHERE socket_id = ?
\* (app.js:225-230): the table once the rows of socket s are closed.
CloseRecords(logs, s) ==
    {IF r.socket_id = SocketId(s) THEN [r EXCEPT !.disconnected_at = TRUE] ELSE r : r \in logs}

\* The UPDATE of connection_logs is answered: on success the handler deletes
\* the rate-limit entry under socket.user.id (app.js:233); a failure is caught
\* and logged, and the delete is skipped.
DisconnectLogged(s, ok) ==
    /\ s \in 1..nsock
    /\ conn[s].closing = "update"
    /\ conn' = [conn EXCEPT ![s].closing = IF ok THEN "done" ELSE "error"]
    /\ IF ok
       THEN /\ socketRateLimits' =
                [socketRateLimits EXCEPT ![conn[s].inst][conn[s].user] = NoEntry]
            /\ connection_logs' = CloseRecords(connection_logs, s)
       ELSE UNCHANGED <<socketRateLimits, connection_logs>>
    /\ UNCHANGED <<now, httpVars, adapterOn, admitSeen, nsock, received, ledger, updates, sends,
                   bus, unhandled>>

(***************************************************************************)
(* Messages and request bodies.  A message is absent (str = FALSE) or a    *)
(* string of body characters with pad whitespace characters around them.   *)
(***************************************************************************)
NoMessage == [str |-> FALSE, body |-> 0, pad |-> 0]
Text(n, p) == [str |-> TRUE, body |-> n, pad |-> p]

\* JavaScript truthiness of a field (app.js:195): absent and "" are falsy
Truthy(message) == message.str /\ message.body + message.pad > 0
\* express-validator's trim() sanitizer (app.js:245), which rewrites req.body
Trim(message) == [message EXCEPT !.pad = 0]

\* Length of an identity string; "none" stands for an absent field, validated as ""
StrLen(id) == IF id = "none" THEN 0 ELSE Len(id)
\* validator.isAlphanumeric: one or more of [0-9A-Za-z]
IsAlphanumeric(id) == id \notin {"none", "user-123"}

\* process.env.WEBHOOK_API_KEY
WEBHOOK_API_KEY == "key"

NoSend ==
    [kind |-> "none", sock |-> 0, inst |-> "A", data |-> FALSE, recipientId |-> "none",
     message |-> NoMessage, apiKey |-> "none", cb |-> FALSE, pc |-> "done",
     ack |-> "none", emitted |-> FALSE, raised |-> FALSE, targets |-> {}]
\* History fields of a send: emitted, whether io.to(room).emit ran; raised,
\* whether the handler threw; targets, the recipient's open connections when
\* the request arrived.

\* callback(value) inside the try block of the send_notification handler, and
\* the callback({error: "Internal server error"}) of its catch block
\* (app.js:196, 214-217).  Calling an absent callback throws a TypeError: the
\* catch block takes it, calls the absent callback again and throws out of the
\* handler.
Callback(rec, value) ==
    IF rec.cb
    THEN [rec EXCEPT !.pc = "done", !.ack = value]
    ELSE [rec EXCEPT !.pc = "done", !.raised = TRUE]

Raised(rec) == IF rec.raised THEN {"send_notification"} ELSE {}

(***************************************************************************)
(* send_notification (app.js:189-219).                                     *)
(***************************************************************************)
\* The listener runs for a request of connection s up to its await: an
\* undefined data makes the destructuring throw into the catch block; a falsy
\* recipientId or message is answered at once; otherwise the event is emitted
\* to the recipient's room and the INSERT is issued.
SendNotification(s, data, recipientId, message, cb) ==
    LET k == Len(sends) + 1
        rec == [NoSend EXCEPT !.kind = "socket", !.sock = s, !.inst = conn[s].inst,
                              !.data = data, !.recipientId = recipientId,
                              !.message = message, !.cb = cb, !.pc = "insert",
                              !.targets = OpenOf(recipientId)]
        ev == [kind |-> "live", n |-> k]
        done == IF ~data THEN Callback(rec, "Internal server error")
                ELSE Callback(rec, "Missing required fields")
    IN
    /\ s \in 1..nsock
    /\ conn[s].pc = "active" /\ conn[s].open
    /\ Len(sends) < MaxSends
    /\ data \/ (recipientId = "none" /\ message = NoMessage)
    /\ IF ~data \/ recipientId = "none" \/ ~Truthy(message)
       THEN /\ sends' = Append(sends, done)
            /\ unhandled' = unhandled \cup Raised(done)
            /\ UNCHANGED <<received, bus>>
       ELSE /\ sends' = Append(sends, [rec EXCEPT !.emitted = TRUE])
            /\ received' = DeliverLocal(received, conn[s].inst, Room(recipientId), ev)
            /\ bus' = Publish(bus, conn[s].inst, Room(recipientId), ev)
            /\ UNCHANGED unhandled
    /\ UNCHANGED <<now, httpVars, adapterOn, limitVars, nsock, conn, dbVars>>

(***************************************************************************)
(* POST /webhook/notify (app.js:240-276).                                  *)
(***************************************************************************)
\* Faulty variant, to show the property is sensitive: the apiKey is not validated.
ValidationErrorsNoKey(recipientId, message, apiKey) ==
    (IF IsAlphanumeric(recipientId) /\ StrLen(recipientId) >= 8 /\ StrLen(recipientId) <= 64
     THEN {} ELSE {"recipientId"})
    \cup (IF message.str /\ Trim(message).body + Trim(message).pad <= 500
          THEN {} ELSE {"message"})

\* The fields express-validator reports (app.js:243-247)
ValidationErrors(recipientId, message, apiKey) ==
    (IF IsAlphanumeric(recipientId) /\ StrLen(recipientId) >= 8 /\ StrLen(recipientId) <= 64
     THEN {} ELSE {"recipientId"})
    \cup (IF message.str /\ Trim(message).body + Trim(message).pad <= 500
          THEN {} ELSE {"message"})
    \cup (IF apiKey = WEBHOOK_API_KEY THEN {} ELSE {"apiKey"})

\* The route runs on instance inst up to its await: 400 on validation errors,
\* otherwise the event is emitted and the INSERT is issued.
WebhookNotify(inst, recipientId, message, apiKey) ==
    LET k == Len(sends) + 1
        rec == [NoSend EXCEPT !.kind = "webhook", !.inst = inst, !.data = TRUE,
                              !.recipientId = recipientId, !.message = message,
                              !.apiKey = apiKey, !.pc = "insert",
                              !.targets = OpenOf(recipientId)]
        ev == [kind |-> "live", n |-> k]
    IN
    /\ Len(sends) < MaxSends
    /\ IF ValidationErrors(recipientId, message, apiKey) # {}
       THEN /\ sends' = Append(sends, [rec EXCEPT !.pc = "done", !.ack = "400"])
            /\ UNCHANGED <<received, bus>>
       ELSE /\ sends' = Append(sends, [rec EXCEPT !.emitted = TRUE,
                                                  !.message = Trim(message)])
            /\ received' = DeliverLocal(received, inst, Room(recipientId), ev)
            /\ bus' = Publish(bus, inst, Room(recipientId), ev)
    /\ UNCHANGED <<now, httpVars, adapterOn, limitVars, nsock, conn, dbVars, unhandled>>

(***************************************************************************)
(* INSERT INTO notifications (app.js:207-212, 263-268).                    *)
(***************************************************************************)
\* The row of send k.  History fields: send, the request it came from;
\* offline, whether its recipient had no open connection when it was recorded;
\* next, the first connection admitted for the recipient after that.
Row(k) ==
    [sender |-> IF sends[k].kind = "webhook" THEN "system" ELSE conn[sends[k].sock].user,
     recipient |-> sends[k].recipientId,
     message |-> sends[k].message,
     socket |-> IF sends[k].kind = "webhook" THEN "none" ELSE SocketId(sends[k].sock),
     delivered |-> 0,
     writers |-> {},
     send |-> k,
     offline |-> OpenOf(sends[k].recipientId) = {},
     next |-> 0]

\* The INSERT of send k is answered and its handler resumes: the row is in
\* the table and the caller is told so, or the failure is caught, logged and
\* answered with an internal error.
InsertReturn(k, ok) ==
    /\ k \in 1..Len(sends)
    /\ sends[k].pc = "insert"
    /\ ledger' = IF ok THEN Append(ledger, Row(k)) ELSE ledger
    /\ LET done == IF sends[k].kind = "webhook"
                   THEN [sends[k] EXCEPT !.pc = "done", !.ack = IF ok THEN "200" ELSE "500"]
                   ELSE Callback(sends[k], IF ok THEN "success" ELSE "Internal server error")
       IN /\ sends' = [sends EXCEPT ![k] = done]
          /\ unhandled' = unhandled \cup Raised(done)
    /\ UNCHANGED <<now, httpVars, adapterOn, limitVars, sockVars, updates, connection_logs, bus>>

(***************************************************************************)
(* Initial state and specifications.                                       *)
(***************************************************************************)
InitHttp ==
    /\ now = 0
    /\ httpLimits = [ip \in Ips |-> NoLimit]
    /\ httpSeen = [ip \in Ips |-> NoSeen]
    /\ httpLast = [ip \in Ips |-> NoAnswer]

InitServer ==
    /\ socketRateLimits = [i \in Instances |-> [key \in Keys |-> NoEntry]]
    /\ admitSeen = [i \in Instances |-> [key \in Keys |-> NoSeen]]
    /\ nsock = 0
    /\ conn = [s \in Sockets |-> NoConn]
    /\ received = [s \in Sockets |-> <<>>]
    /\ ledger = <<>>
    /\ updates = {}
    /\ connection_logs = {}
    /\ sends = <<>>
    /\ bus = [i \in Instances |-> <<>>]
    /\ unhandled = {}

\* One instance, no Redis adapter (config.redis.url unset).
Init ==
    /\ InitHttp
    /\ InitServer
    /\ adapterOn = [i \in Instances |-> FALSE]

\* Two instances whose Redis clients connected at startup (config.redis.url
\* set): both have the adapter.
InitCluster ==
    /\ InitHttp
    /\ InitServer
    /\ adapterOn = [i \in Instances |-> TRUE]

NextHttp ==
    \/ \E ip \in Ips : httpRateLimiter(ip)
    \/ Tick

SpecHttp == Init /\ [][NextHttp]_vars

\* What a query can come back with: TRUE = answered, FALSE = storage error
Outcomes == BOOLEAN

\* A well signed, current token of identity u
ValidToken(u) == [kind |-> "valid", id |-> u]

\* One server instance and one identity that connects, disconnects and
\* reconnects, and is sent notifications by webhook calls and by its own
\* connections.  Storage answers every query.
Next ==
    \/ nsock < MaxSessions /\ Connect("A", ValidToken("alice001"), "none")
    \/ \E s \in Sockets : ReplayReturn(s, TRUE)
    \/ \E id \in 1..Len(ledger), s \in Sockets : MarkDelivered(id, s, TRUE)
    \/ \E s \in Sockets : Disconnect(s)
    \/ \E s \in Sockets : DisconnectLogged(s, TRUE)
    \/ \E s \in Sockets : SendNotification(s, TRUE, "alice001", Text(2, 0), TRUE)
    \/ WebhookNotify("A", "alice001", Text(2, 0), WEBHOOK_API_KEY)
    \/ \E k \in 1..MaxSends : InsertReturn(k, TRUE)

Spec == Init /\ [][Next]_vars

\* Both rate limiters under a running clock: one origin's HTTP requests and
\* the connection attempts of one identity that names itself in
\* handshake.auth.userId.
NextWindows ==
    \/ httpRateLimiter("ip1")
    \/ Connect("A", ValidToken("alice001"), "alice001")
    \/ Tick

SpecWindows == Init /\ [][NextWindows]_vars

\* The socket rate limiter under a running clock: connection attempts of one
\* identity that names itself or nobody in handshake.auth.userId, and
\* disconnects.
NextLimits ==
    \/ \E uid \in {"alice001", "none"} : Connect("A", ValidToken("alice001"), uid)
    \/ \E s \in Sockets : ReplayReturn(s, TRUE)
    \/ \E s \in Sockets : Disconnect(s)
    \/ \E s \in Sockets : DisconnectLogged(s, TRUE)
    \/ Tick

SpecLimits == Init /\ [][NextLimits]_vars

\* Two instances: one identity connects to either, and is sent notifications
\* by its own connections (handled where they are connected) and by webhook
\* calls.
NextCluster ==
    \/ \E inst \in Instances :
          nsock < MaxSessions /\ Connect(inst, ValidToken("alice001"), "none")
    \/ \E s \in Sockets : ReplayReturn(s, TRUE)
    \/ \E s \in Sockets : Disconnect(s)
    \/ \E s \in Sockets : SendNotification(s, TRUE, "alice001", Text(2, 0), TRUE)
    \/ WebhookNotify("A", "alice001", Text(2, 0), WEBHOOK_API_KEY)
    \/ \E k \in 1..MaxSends : InsertReturn(k, TRUE)
    \/ \E j \in Instances : BusDeliver(j)

SpecCluster == InitCluster /\ [][NextCluster]_vars

\* Webhook calls of every shape, with a recipient connected or not.
WebhookIds == {"alice001", "bob", "user-123"}
WebhookMessages == {NoMessage, Text(2, 0), Text(500, 1), Text(501, 0)}
WebhookKeys == {WEBHOOK_API_KEY, "wrong"}

NextWebhook ==
    \/ nsock = 0 /\ Connect("A", ValidToken("alice001"), "none")
    \/ \E s \in Sockets : ReplayReturn(s, TRUE)
    \/ \E recipientId \in WebhookIds, message \in WebhookMessages, apiKey \in WebhookKeys :
          WebhookNotify("A", recipientId, message, apiKey)
    \/ \E k \in 1..MaxSends, ok \in Outcomes : InsertReturn(k, ok)

SpecWebhook == Init /\ [][NextWebhook]_vars

\* send_notification requests of every shape, with or without an
\* acknowledgement callback, on the connections of one identity.
SendMessages == {NoMessage, Text(0, 0), Text(2, 0)}

NextSend ==
    \/ nsock < MaxSessions /\ Connect("A", ValidToken("alice001"), "none")
    \/ \E s \in Sockets : ReplayReturn(s, TRUE)
    \/ \E id \in 1..Len(ledger), s \in Sockets : MarkDelivered(id, s, TRUE)
    \/ \E s \in Sockets : Disconnect(s)
    \/ \E s \in Sockets : DisconnectLogged(s, TRUE)
    \/ \E s \in Sockets, data \in BOOLEAN, recipientId \in {"alice001", "none"},
          message \in SendMessages, cb \in BOOLEAN :
            SendNotification(s, data, recipientId, message, cb)
    \/ \E k \in 1..MaxSends, ok \in Outcomes : InsertReturn(k, ok)

SpecSend == Init /\ [][NextSend]_vars

\* Connection attempts with every kind of credential.
NextAuth ==
    \/ \E token \in Tokens : nsock < MaxSessions /\ Connect("A", token, "none")
    \/ \E s \in Sockets : ReplayReturn(s, TRUE)
    \/ \E id \in 1..Len(ledger), s \in Sockets : MarkDelivered(id, s, TRUE)
    \/ \E s \in Sockets : Disconnect(s)
    \/ \E s \in Sockets : DisconnectLogged(s, TRUE)
    \/ \E s \in Sockets, recipientId \in Users :
          SendNotification(s, TRUE, recipientId, Text(2, 0), TRUE)
    \/ \E k \in 1..MaxSends : InsertReturn(k, TRUE)

SpecAuth == Init /\ [][NextAuth]_vars

(***************************************************************************)
(* Properties.                                                             *)
(***************************************************************************)
\* The rows a replay has put before the client of connection s, in order.
ReplayIds(s) ==
    LET q == SelectSeq(received[s], LAMBDA e : e.kind = "replay")
    IN [i \in 1..Len(q) |-> q[i].n]

\* The sends pushed live to the client of connection s, in order.
LiveSends(s) ==
    LET q == SelectSeq(received[s], LAMBDA e : e.kind = "live")
    IN [i \in 1..Len(q) |-> q[i].n]

\* The rows recorded while their recipient had no open connection and for
\* which s is the next connection admitted, in creation order.
Backlog(s) ==
    SelectSeq([i \in 1..Len(ledger) |-> i],
              LAMBDA i : ledger[i].offline /\ ledger[i].next = s)

\* C1: the next connection admitted for a recipient, once its replay has run,
\* has been sent the notifications recorded while the recipient had no open
\* connection, one copy of each in creation order, and the UPDATE issued by
\* its replay has set the delivery timestamp of each.
C1_BacklogReplayedOnce ==
    \A s \in 1..nsock :
        conn[s].pc = "active" =>
            /\ SelectSeq(ReplayIds(s), LAMBDA id : id \in SeqRange(Backlog(s))) = Backlog(s)
            /\ \A id \in SeqRange(Backlog(s)) :
                  <<id, s>> \notin updates => s \in ledger[id].writers

\* C2: a connection is never sent by replay a notification that a replay had
\* already put before a client of the same recipient when the connection was
\* admitted.
C2_NoDuplicateReplay ==
    \A s \in 1..nsock : SeqRange(ReplayIds(s)) \cap conn[s].already = {}

Admitted(s) == conn[s].pc \in {"query", "active"}
ReachedLimiter(s) == conn[s].pc \in {"denied", "query", "active"}

\* C4: socket rate limiter.  Counting the attempts of a key from the first
\* admission of a window, whatever disconnects happen in between, attempts 1
\* to ceiling are admitted and attempt ceiling + 1 is denied with a
\* remaining-time value between 0 and the window duration.
C4_ExactlyCeilingPerWindow ==
    \A s \in 1..nsock :
        ReachedLimiter(s) =>
            /\ conn[s].nth <= SocketPoints => Admitted(s)
            /\ conn[s].nth = SocketPoints + 1 =>
                  /\ conn[s].pc = "denied"
                  /\ conn[s].retryAfter \in 0..SocketDuration

\* C5: HTTP rate limiter.  Of the requests of one origin within one window,
\* requests 1 to HttpMax are passed on and request HttpMax + 1 is answered 429
\* with retryAfter at most the window in seconds; an origin's answers depend
\* on its own requests only.
C5_HttpCeiling ==
    \A ip \in Ips :
        /\ httpSeen[ip].n \in 1..HttpMax => httpLast[ip].status = "next"
        /\ httpSeen[ip].n = HttpMax + 1 =>
              /\ httpLast[ip].status = "429"
              /\ httpLast[ip].retryAfter \in 0..(HttpWindow * 60)

\* C5 witness: one origin has just had request HttpMax + 1 of a window denied
\* while the other origin, in a window of its own, is still being passed on.
C5_Witness ==
    /\ httpSeen["ip1"].n = HttpMax + 1
    /\ httpLast["ip1"].status = "429"
    /\ httpLast["ip1"].retryAfter = 900
    /\ httpSeen["ip2"].n = 1
    /\ httpLast["ip2"].status = "next"

\* C6: both limiters.  A request that arrives for a key whose window has
\* elapsed (now is past window start + duration) is admitted whatever the
\* count was, and leaves a window with count 1 that starts at the request.
C6_WindowRestarts ==
    [][ /\ \A ip \in Ips :
            ( /\ httpSeen'[ip] # httpSeen[ip]
              /\ httpLimits[ip].count > 0
              /\ now > (httpLimits[ip].resetTime - windowMs) + windowMs )
            => /\ httpLast'[ip].status = "next"
               /\ httpLimits'[ip].count = 1
               /\ httpLimits'[ip].resetTime - windowMs = now
        /\ \A i \in Instances, key \in Keys :
            ( /\ admitSeen'[i][key] # admitSeen[i][key]
              /\ socketRateLimits[i][key].count > 0
              /\ now > socketRateLimits[i][key].timestamp + timeWindow )
            => /\ conn'[nsock'].pc = "query"
               /\ conn'[nsock'].open
               /\ socketRateLimits'[i][key] = [timestamp |-> now, count |-> 1]
      ]_vars

\* C6 witness: both limiters are in a second window that a request opened
\* after the first had elapsed, and the socket limiter had admitted its full
\* ceiling in the first window before admitting the request that restarted it.
C6_Witness ==
    /\ httpSeen["ip1"].era = 2 /\ httpSeen["ip1"].n = 1
    /\ httpLimits["ip1"] = [count |-> 1, resetTime |-> now + windowMs]
    /\ admitSeen["A"]["alice001"].era = 2 /\ admitSeen["A"]["alice001"].n = 1
    /\ socketRateLimits["A"]["alice001"] = [timestamp |-> now, count |-> 1]
    /\ nsock = SocketPoints + 1
    /\ \A s \in 1..nsock : conn[s].pc = "query" /\ conn[s].key = "alice001"

\* C7: once the disconnect of an admitted connection has been handled, the
\* rate-limit map of its instance holds no entry under the key the connection
\* was admitted under.
C7_EntryEvictedOnClose ==
    [][ \A s \in Sockets :
            ( /\ Admitted(s)
              /\ (conn[s].open \/ conn[s].closing = "update")
              /\ ~conn'[s].open /\ conn'[s].closing # "update" )
            => socketRateLimits'[conn[s].inst][conn[s].key].count = 0
      ]_vars

\* The adapter messages of send k that instance j has yet to deliver.
InFlight(k, j) == {i \in 1..Len(bus[j]) : bus[j][i].ev.n = k}

Occurrences(q, x) == Cardinality({i \in 1..Len(q) : q[i] = x})

\* C3: two instances sharing the bus.  Every connection of the recipient that
\* was open when a send was published, and is still open once the adapter
\* message has reached its instance, has been sent the push event of that
\* send, once, whichever instance handled the send.
C3_FanOutAcrossInstances ==
    \A k \in 1..Len(sends) :
        sends[k].emitted =>
            \A s \in sends[k].targets :
                (conn[s].open /\ InFlight(k, conn[s].inst) = {})
                    => Occurrences(LiveSends(s), k) = 1

\* C3 witness: a webhook call handled on A and a send_notification handled on
\* B have each reached a connection on A and a connection on B.
C3_Witness ==
    \E k1, k2 \in 1..Len(sends), a, b \in 1..nsock :
        /\ sends[k1].kind = "webhook" /\ sends[k1].inst = "A"
        /\ sends[k2].kind = "socket" /\ sends[k2].inst = "B"
        /\ conn[a].inst = "A" /\ conn[b].inst = "B"
        /\ {a, b} \subseteq sends[k1].targets \cap sends[k2].targets
        /\ {k1, k2} \subseteq SeqRange(LiveSends(a)) \cap SeqRange(LiveSends(b))

\* The rows a send has put in the ledger, and the push events of it that are
\* with a client or on the bus.
RowsOf(k) == {i \in 1..Len(ledger) : ledger[i].send = k}
PushesOf(k) ==
    {s \in Sockets : k \in SeqRange(LiveSends(s))}
        \cup {j \in Instances : InFlight(k, j) # {}}

\* A webhook body the endpoint must refuse: a wrong apiKey, a recipientId that
\* is not 8 to 64 alphanumeric characters, or a message that is not a string
\* or is longer than 500 characters apart from surrounding whitespace.
BadWebhook(rec) ==
    \/ rec.apiKey # WEBHOOK_API_KEY
    \/ ~IsAlphanumeric(rec.recipientId)
    \/ StrLen(rec.recipientId) \notin 8..64
    \/ ~rec.message.str
    \/ rec.message.body > 500

C9_SendAlwaysAcknowledged ==
    \A k \in 1..Len(sends) :
        (sends[k].kind = "socket" /\ sends[k].pc = "done") =>
            /\ ~sends[k].raised
            /\ sends[k].ack \in {"success", "Missing required fields",
                                 "Internal server error"}
            /\ (sends[k].recipientId = "none" \/ ~Truthy(sends[k].message)) =>
                  /\ sends[k].ack # "success"
                  /\ ~sends[k].emitted
                  /\ RowsOf(k) = {}
                  /\ PushesOf(k) = {}

C11_DeliveredAtWrittenOnce ==
    \A id \in 1..Len(ledger) : ledger[id].delivered <= 1

\* The send whose INSERT created row id.
SendOf(id) == ledger[id].send

\* C12: on every connection the replayed backlog comes first: no live push
\* precedes a replayed notification, and no notification reaches the same
\* connection both as a live push and by replay.
C12_ReplayBeforeLive ==
    \A s \in 1..nsock :
        /\ \A i, j \in 1..Len(received[s]) :
              (i < j /\ received[s][i].kind = "live") => received[s][j].kind # "replay"
        /\ \A id \in SeqRange(ReplayIds(s)) : SendOf(id) \notin SeqRange(LiveSends(s))

\* C18: a notification that was pushed live to an open connection of its
\* recipient is not emitted again by the replay of a connection admitted
\* later for that recipient.
C18_ReplayOnlyOfflineBacklog ==
    \A s \in 1..nsock :
        \A id \in SeqRange(ReplayIds(s)) :
            \A t \in 1..(s - 1) : SendOf(id) \notin SeqRange(LiveSends(t))

\* C20: a row's delivery timestamp is set only by the replay of a connection
\* whose client was sent the row, that is, whose socket was open at the emit.
C20_MarkedOnlyIfEmittedToOpen ==
    \A id \in 1..Len(ledger) :
        \A s \in ledger[id].writers : id \in SeqRange(ReplayIds(s))

\* C13: when an admitted connection closes, at whatever point after
\* admission, the UPDATE of connection_logs is issued and the socket is out
\* of its room; and when that UPDATE has been answered, with success or with
\* a storage error, no rate-limit entry is left under the connection's key.
C13_CleanupOnEveryClose ==
    [][ \A s \in Sockets :
            /\ (Admitted(s) /\ conn[s].open /\ ~conn'[s].open)
                  => /\ conn'[s].closing = "update"
                     /\ s \notin {t \in 1..nsock' : conn'[t].open}
            /\ (conn[s].closing = "update" /\ conn'[s].closing # "update")
                  => socketRateLimits'[conn[s].inst][conn[s].key].count = 0
      ]_vars

\* C14: whenever the push event of a send (send_notification or webhook) has
\* been emitted, the ledger holds the row of that send.
C14_RecordedBeforePublished ==
    \A k \in 1..Len(sends) : sends[k].emitted => RowsOf(k) # {}

(***************************************************************************)
(* Further specifications and properties.                                  *)
(***************************************************************************)
\* send_notification requests on the connections of one identity, which
\* names itself or nobody in handshake.auth.userId, under a running clock.
NextGate ==
    \/ \E uid \in {"alice001", "none"} :
          nsock < MaxSessions /\ Connect("A", ValidToken("alice001"), uid)
    \/ \E s \in Sockets : ReplayReturn(s, TRUE)
    \/ \E s \in Sockets : Disconnect(s)
    \/ \E s \in Sockets : SendNotification(s, TRUE, "alice001", Text(2, 0), TRUE)
    \/ \E k \in 1..MaxSends : InsertReturn(k, TRUE)
    \/ Tick

SpecGate == Init /\ [][NextGate]_vars

\* The limiter entry under key has reached the ceiling and its window is
\* still running at the current time.
AtCeiling(i, key) ==
    /\ socketRateLimits[i][key].count >= SocketPoints
    /\ now - socketRateLimits[i][key].timestamp <= timeWindow

\* C15: a send_notification request that arrives on a connection whose
\* rate-limit key has reached the ceiling within the current window is
\* answered with an error, and is neither published nor recorded.
C15_SendGatedByLimiter ==
    [][ \A s \in Sockets :
            ( /\ Len(sends') = Len(sends) + 1
              /\ sends'[Len(sends')].kind = "socket"
              /\ sends'[Len(sends')].sock = s
              /\ AtCeiling(conn[s].inst, conn[s].key) )
            => /\ ~sends'[Len(sends')].emitted
               /\ sends'[Len(sends')].pc = "done"
               /\ sends'[Len(sends')].ack \notin {"none", "success"}
               /\ received' = received
      ]_vars

\* Connection attempts of two identities, each with a valid token and with
\* any value a client may put in handshake.auth.userId.
NextIdentity ==
    \/ \E u \in Users, uid \in Users \cup {"none"} : Connect("A", ValidToken(u), uid)
    \/ \E s \in Sockets : ReplayReturn(s, TRUE)
    \/ \E s \in Sockets : Disconnect(s)
    \/ \E s \in Sockets : DisconnectLogged(s, TRUE)

SpecIdentity == Init /\ [][NextIdentity]_vars

\* C16: two connection attempts on one instance are counted under the same
\* rate-limit key exactly when their tokens verify to the same identity.
C16_LimiterKeyedOnVerifiedIdentity ==
    \A s, t \in 1..nsock :
        (ReachedLimiter(s) /\ ReachedLimiter(t) /\ conn[s].inst = conn[t].inst) =>
            (conn[s].user = conn[t].user <=> conn[s].key = conn[t].key)

\* One identity's connections and send_notification requests, each with an
\* acknowledgement callback, while any storage query may fail.
NextStorage ==
    \/ nsock < MaxSessions /\ Connect("A", ValidToken("alice001"), "none")
    \/ \E s \in Sockets, ok \in Outcomes : ReplayReturn(s, ok)
    \/ \E id \in 1..Len(ledger), s \in Sockets, ok \in Outcomes : MarkDelivered(id, s, ok)
    \/ \E s \in Sockets : Disconnect(s)
    \/ \E s \in Sockets, ok \in Outcomes : DisconnectLogged(s, ok)
    \/ \E s \in Sockets : SendNotification(s, TRUE, "alice001", Text(2, 0), TRUE)
    \/ \E k \in 1..MaxSends, ok \in Outcomes : InsertReturn(k, ok)

SpecStorage == Init /\ [][NextStorage]_vars

\* C17: whichever storage queries fail (the replay SELECT, an UPDATE of
\* delivered_at, the INSERT of a send, the UPDATE of connection_logs), the
\* failure is caught by the handler that issued the query: no promise is
\* rejected with nothing to catch it.
C17_StorageFailuresContained == unhandled = {}

\* The rows of connection_logs for connection s whose disconnected_at is NULL.
OpenRecords(s) ==
    {r \in connection_logs : r.socket_id = SocketId(s) /\ ~r.disconnected_at}

\* C19: every admitted connection that is open has exactly one row in
\* connection_logs with disconnected_at NULL; a connection that is not open
\* has none, and once its disconnect has been logged it has a row with
\* disconnected_at set.
C19_OneOpenRecordPerLiveConnection ==
    \A s \in 1..nsock :
        /\ (Admitted(s) /\ conn[s].open) => Cardinality(OpenRecords(s)) = 1
        /\ ~conn[s].open => OpenRecords(s) = {}
        /\ conn[s].closing = "done" =>
              \E r \in connection_logs : r.socket_id = SocketId(s) /\ r.disconnected_at

====
